---- MODULE Spec2Model ----
(***************************************************************************)
(* Model of the homework-status bot (src/homework.py): the start-up of     *)
(* main(), and one pass of its `while True` loop split at the calls main   *)
(* makes: process_homeworks, update_timestamp, handle_error and the sleep  *)
(* of the finally clause.                                                  *)
(*                                                                         *)
(* Text is a sequence of tokens (string pieces); an f-string is the        *)
(* concatenation of its pieces, so two texts are equal exactly when their  *)
(* pieces are.  The program's Russian literals are written here in ASCII   *)
(* (an injective renaming: distinct literals stay distinct).  JSON values  *)
(* are tagged records [t |-> type, v |-> value].                           *)
(***************************************************************************)
EXTENDS Integers, Sequences, FiniteSets, TLC

VARIABLES
    env,               \* the three environment variables read at import time
    pc,                \* position of main()
    current_timestamp, \* main's cursor
    previous_message,  \* main's last-notification text
    pending,           \* exception propagating out of the current statement
    response,          \* body decoded by process_homeworks' fetch in this pass
    returned,          \* value process_homeworks returned in this pass
    reported,          \* current_date update_timestamp found in this pass
    log,               \* calls made in the current pass, in order
    cycle,             \* number of passes of the loop begun
    sleeps,            \* number of time.sleep calls made by main
    caught,            \* exception an except clause caught in this pass
    failed_at,         \* the call of the try block that raised it
    cursor0,           \* current_timestamp when the current pass began
    message0,          \* previous_message when the current pass began
    prev,              \* summary of the pass before the current one
    arg,               \* a function called on its own: its name and argument
    result             \* what that call raised or returned

vars == <<env, pc, current_timestamp, previous_message, pending, response,
          returned, reported, log, cycle, sleeps, caught, failed_at, cursor0, message0,
          prev, arg, result>>

\* ---------------------------------------------------------------- bounds
MaxCycles == 2
MaxDate == 2

\* ------------------------------------------------------ program constants
RETRY_PERIOD == 600
HTTP_OK == 200

HOMEWORK_VERDICTS ==
    [approved  |-> "Work checked: the reviewer liked everything. Hooray!",
     reviewing |-> "Work taken for review by the reviewer.",
     rejected  |-> "Work checked: the reviewer has remarks."]

\* ------------------------------------------------------------------ text
Digit == <<"0", "1", "2", "3", "4", "5", "6", "7", "8", "9">>

RECURSIVE IntToStr(_)
\* str(n) of a non-negative int: its decimal digits
IntToStr(n) ==
    IF n < 10 THEN <<Digit[n + 1]>>
    ELSE IntToStr(n \div 10) \o <<Digit[(n % 10) + 1]>>

EmptyText == << >>

\* ------------------------------------------------------------ exceptions
NoExc == [type |-> "None", msg |-> EmptyText]

Raise(type, msg) == [type |-> type, msg |-> msg]

\* str(error): KeyError shows the repr of its argument, the others the text
StrOfError(error) ==
    IF error.type = "KeyError"
    THEN <<"'">> \o error.msg \o <<"'">>
    ELSE error.msg

\* ------------------------------------------------------------------ JSON
JNull == [t |-> "null", v |-> 0]
JInt(n) == [t |-> "int", v |-> n]
JStr(s) == [t |-> "str", v |-> s]
JList(q) == [t |-> "list", v |-> q]
JDict(f) == [t |-> "dict", v |-> f]

\* a body that is not JSON: response.json() raises on it
InvalidJson == [t |-> "invalid", v |-> 0]

\* isinstance(x, dict), isinstance(x, list), `key in d`
IsDict(x) == x.t = "dict"
IsList(x) == x.t = "list"
HasKey(d, key) == key \in DOMAIN d.v

\* ---------------------------------------------------------------- inputs
HomeworkNames == {"hw1"}
StatusValues == {"approved", "rejected", "unknown_status"}

Record(name, status) ==
    JDict([k \in {"homework_name", "status"} |->
             IF k = "homework_name" THEN JStr(name) ELSE JStr(status)])

NameOnly(name) == JDict([k \in {"homework_name"} |-> JStr(name)])

FirstRecords ==
    {Record(n, s) : n \in HomeworkNames, s \in StatusValues}
    \cup {NameOnly(n) : n \in HomeworkNames}

LaterRecords == {Record("hw1", "rejected")}

HomeworkLists ==
    {<< >>} \cup {<<r>> : r \in FirstRecords}
    \cup {<<r, l>> : r \in FirstRecords, l \in LaterRecords}

Dates == 1 .. MaxDate

WithDate(hw, d) ==
    JDict([k \in {"homeworks", "current_date"} |->
             IF k = "homeworks" THEN hw ELSE JInt(d)])

WithoutDate(hw) == JDict([k \in {"homeworks"} |-> hw])

Bodies ==
    {WithDate(JList(q), d) : q \in HomeworkLists, d \in Dates}
    \cup {WithoutDate(JList(q)) : q \in HomeworkLists}
    \cup {WithoutDate(JStr("none")),                    \* homeworks not a list
          JDict([k \in {"current_date"} |-> JInt(1)]),  \* no homeworks key
          JList(<< >>),                                 \* not an object
          InvalidJson}

\* What requests.get can do: raise a RequestException, or return a response
NetworkDown ==
    [raises |-> TRUE, status_code |-> 0, reason |-> "", text |-> "",
     json |-> InvalidJson]

HttpReply(code, reason, body) ==
    [raises |-> FALSE, status_code |-> code, reason |-> reason,
     text |-> "body", json |-> body]

ApiOutcomes ==
    {NetworkDown, HttpReply(503, "Service Unavailable", InvalidJson)}
    \cup {HttpReply(HTTP_OK, "OK", b) : b \in Bodies}

\* What bot.send_message can do: return, raise telebot's ApiException (the
\* bot API rejected the call), or raise an exception of the HTTP layer
BotOutcomes == {"accepted", "ApiException", "RequestException"}

\* What os.getenv gives: None, or a string that may be empty
EnvValues ==
    {[none |-> TRUE, s |-> ""], [none |-> FALSE, s |-> ""],
     [none |-> FALSE, s |-> "value"]}

\* `not value`
Falsy(value) == value.none \/ value.s = ""

\* ----------------------------------------------------------- call records
\* One call the program made: op is the callee, by the function of
\* homework.py that made it, n its integer argument (from_date, seconds),
\* text its text argument, res how it ended for the caller.
Call(op, by, n, text, res) ==
    [op |-> op, by |-> by, n |-> n, text |-> text, res |-> res]

By(calls, by) == [i \in 1 .. Len(calls) |-> [calls[i] EXCEPT !.by = by]]

\* ------------------------------------------------------------- functions
\* check_tokens(): the names of the variables that are missing
MissingTokens(e) == {k \in DOMAIN e : Falsy(e[k])}

\* check_tokens with `value is None` for `not value`: an empty string passes
check_tokens_none_only(e) ==
    IF \E k \in DOMAIN e : e[k].none
    THEN [exc |-> Raise("Exception", <<"missing environment variables">>),
          val |-> FALSE]
    ELSE [exc |-> NoExc, val |-> TRUE]

check_tokens(e) ==
    IF MissingTokens(e) # {}
    THEN [exc |-> Raise("Exception", <<"missing environment variables">>),
          val |-> FALSE]
    ELSE [exc |-> NoExc, val |-> TRUE]

\* get_api_answer that repeats the request once when requests.get raised
get_api_answer_retry(api, ts) ==
    LET params == <<"url=ENDPOINT headers=HEADERS params.from_date=">>
                  \o IntToStr(ts)
        call(res) == <<Call("requests.get", "get_api_answer", ts, EmptyText,
                             res)>>
    IN  IF api.raises
        THEN [exc |-> Raise("ConnectionError",
                            <<"API request failed: ">> \o params
                            \o <<". Error: RequestException">>),
              val |-> InvalidJson, log |-> call("raised") \o call("raised")]
        ELSE IF api.status_code # HTTP_OK
        THEN [exc |-> Raise("InvalidResponseCode",
                            <<"Wrong API response code: ">>
                            \o IntToStr(api.status_code)
                            \o <<", reason: ", api.reason,
                                 ", text: ", api.text>>),
              val |-> InvalidJson, log |-> call("returned")]
        ELSE IF api.json.t = "invalid"
        THEN [exc |-> Raise("JSONDecodeError", <<"Expecting value">>),
              val |-> InvalidJson, log |-> call("returned")]
        ELSE [exc |-> NoExc, val |-> api.json, log |-> call("returned")]

\* get_api_answer(current_timestamp), api being what requests.get does
get_api_answer(api, ts) ==
    LET params == <<"url=ENDPOINT headers=HEADERS params.from_date=">>
                  \o IntToStr(ts)
        call(res) == <<Call("requests.get", "get_api_answer", ts, EmptyText,
                             res)>>
    IN  IF api.raises
        THEN [exc |-> Raise("ConnectionError",
                            <<"API request failed: ">> \o params
                            \o <<". Error: RequestException">>),
              val |-> InvalidJson, log |-> call("raised")]
        ELSE IF api.status_code # HTTP_OK
        THEN [exc |-> Raise("InvalidResponseCode",
                            <<"Wrong API response code: ">>
                            \o IntToStr(api.status_code)
                            \o <<", reason: ", api.reason,
                                 ", text: ", api.text>>),
              val |-> InvalidJson, log |-> call("returned")]
        ELSE IF api.json.t = "invalid"
        THEN [exc |-> Raise("JSONDecodeError", <<"Expecting value">>),
              val |-> InvalidJson, log |-> call("returned")]
        ELSE [exc |-> NoExc, val |-> api.json, log |-> call("returned")]

\* check_response that also rejects an empty homeworks list
check_response_nonempty(resp) ==
    IF ~IsDict(resp)
    THEN [exc |-> Raise("TypeError", <<"API response is not a dict">>),
          val |-> JNull]
    ELSE IF ~HasKey(resp, "homeworks")
    THEN [exc |-> Raise("KeyError",
                        <<"No key \"homeworks\" in the API response">>),
          val |-> JNull]
    ELSE IF ~IsList(resp.v["homeworks"]) \/ Len(resp.v["homeworks"].v) = 0
    THEN [exc |-> Raise("TypeError",
                        <<"Homeworks in the API response are not a list">>),
          val |-> JNull]
    ELSE [exc |-> NoExc, val |-> resp.v["homeworks"]]

\* check_response(response)
check_response(resp) ==
    IF ~IsDict(resp)
    THEN [exc |-> Raise("TypeError", <<"API response is not a dict">>),
          val |-> JNull]
    ELSE IF ~HasKey(resp, "homeworks")
    THEN [exc |-> Raise("KeyError",
                        <<"No key \"homeworks\" in the API response">>),
          val |-> JNull]
    ELSE IF ~IsList(resp.v["homeworks"])
    THEN [exc |-> Raise("TypeError",
                        <<"Homeworks in the API response are not a list">>),
          val |-> JNull]
    ELSE [exc |-> NoExc, val |-> resp.v["homeworks"]]

\* an f-string field
Fmt(x) ==
    IF x.t = "str" THEN <<x.v>>
    ELSE IF x.t = "int" THEN IntToStr(x.v)
    ELSE <<x.t>>

StatusText(homework_name, verdict) ==
    <<"Changed review status for \"">> \o Fmt(homework_name)
    \o <<"\". ", verdict>>

\* parse_status with HOMEWORK_VERDICTS.get(status, status): a status that
\* is not a lexicon key is put in the text instead of being rejected
parse_status_lenient(homework) ==
    IF homework.t \in {"int", "null"}
    THEN [exc |-> Raise("TypeError", <<"argument is not iterable">>),
          val |-> EmptyText]
    ELSE IF ~IsDict(homework)
            \/ ~HasKey(homework, "homework_name")
            \/ ~HasKey(homework, "status")
    THEN [exc |-> Raise("KeyError",
                        <<"Expected keys are missing in the homework">>),
          val |-> EmptyText]
    ELSE LET homework_name == homework.v["homework_name"]
             homework_status == homework.v["status"]
         IN  [exc |-> NoExc,
              val |-> StatusText(homework_name,
                        IF homework_status.v \in DOMAIN HOMEWORK_VERDICTS
                        THEN HOMEWORK_VERDICTS[homework_status.v]
                        ELSE homework_status.v)]

\* parse_status(homework)
parse_status(homework) ==
    IF homework.t \in {"int", "null"}
    THEN [exc |-> Raise("TypeError", <<"argument is not iterable">>),
          val |-> EmptyText]
    ELSE IF ~IsDict(homework)
            \/ ~HasKey(homework, "homework_name")
            \/ ~HasKey(homework, "status")
    THEN [exc |-> Raise("KeyError",
                        <<"Expected keys are missing in the homework">>),
          val |-> EmptyText]
    ELSE LET homework_name == homework.v["homework_name"]
             homework_status == homework.v["status"]
         IN  IF ~(homework_status.t = "str"
                  /\ homework_status.v \in DOMAIN HOMEWORK_VERDICTS)
             THEN [exc |-> Raise("ValueError",
                                 <<"Unexpected homework status: ">>
                                 \o Fmt(homework_status)),
                   val |-> EmptyText]
             ELSE [exc |-> NoExc,
                   val |-> StatusText(homework_name,
                                      HOMEWORK_VERDICTS[homework_status.v])]

\* send_message(bot, message), tg being what bot.send_message does: only
\* telebot.apihelper.ApiException is caught
send_message(tg, message) ==
    LET call(res) == <<Call("bot.send_message", "send_message", 0, message,
                             res)>>
    IN  IF tg = "accepted"
        THEN [exc |-> NoExc, val |-> TRUE, log |-> call("True")]
        ELSE IF tg = "ApiException"
        THEN [exc |-> NoExc, val |-> FALSE, log |-> call("False")]
        ELSE [exc |-> Raise(tg, <<"HTTP layer failure">>), val |-> FALSE,
              log |-> call("raised")]

\* process_homeworks with homeworks[-1] for homeworks[0]
process_homeworks_last(api, tg, ts, previous) ==
    LET answer == get_api_answer(api, ts)
        checked == check_response(answer.val)
        homeworks == checked.val
        parsed == parse_status(homeworks.v[Len(homeworks.v)])
        current_message == parsed.val
        parse_call == <<Call("parse_status", "process_homeworks", 0,
                             EmptyText,
                             IF parsed.exc = NoExc THEN "returned"
                             ELSE "raised")>>
        sent == send_message(tg, current_message)
    IN  IF answer.exc # NoExc
        THEN [exc |-> answer.exc, val |-> previous, log |-> answer.log,
              response |-> InvalidJson]
        ELSE IF checked.exc # NoExc
        THEN [exc |-> checked.exc, val |-> previous, log |-> answer.log,
              response |-> answer.val]
        ELSE IF Len(homeworks.v) = 0
        THEN [exc |-> NoExc, val |-> previous, log |-> answer.log,
              response |-> answer.val]
        ELSE IF parsed.exc # NoExc
        THEN [exc |-> parsed.exc, val |-> previous,
              log |-> answer.log \o parse_call, response |-> answer.val]
        ELSE IF current_message = previous
        THEN [exc |-> NoExc, val |-> previous,
              log |-> answer.log \o parse_call, response |-> answer.val]
        ELSE [exc |-> sent.exc,
              val |-> IF sent.val THEN current_message ELSE previous,
              log |-> answer.log \o parse_call \o sent.log,
              response |-> answer.val]

\* process_homeworks that raises when send_message returned False
process_homeworks_strict(api, tg, ts, previous) ==
    LET answer == get_api_answer(api, ts)
        checked == check_response(answer.val)
        homeworks == checked.val
        parsed == parse_status(homeworks.v[1])
        current_message == parsed.val
        parse_call == <<Call("parse_status", "process_homeworks", 0,
                             EmptyText,
                             IF parsed.exc = NoExc THEN "returned"
                             ELSE "raised")>>
        sent == send_message(tg, current_message)
    IN  IF answer.exc # NoExc
        THEN [exc |-> answer.exc, val |-> previous, log |-> answer.log,
              response |-> InvalidJson]
        ELSE IF checked.exc # NoExc
        THEN [exc |-> checked.exc, val |-> previous, log |-> answer.log,
              response |-> answer.val]
        ELSE IF Len(homeworks.v) = 0
        THEN [exc |-> NoExc, val |-> previous, log |-> answer.log,
              response |-> answer.val]
        ELSE IF parsed.exc # NoExc
        THEN [exc |-> parsed.exc, val |-> previous,
              log |-> answer.log \o parse_call, response |-> answer.val]
        ELSE IF current_message = previous
        THEN [exc |-> NoExc, val |-> previous,
              log |-> answer.log \o parse_call, response |-> answer.val]
        ELSE [exc |-> IF sent.exc = NoExc /\ ~sent.val
                      THEN Raise("Exception", <<"message was not sent">>)
                      ELSE sent.exc,
              val |-> IF sent.val THEN current_message ELSE previous,
              log |-> answer.log \o parse_call \o sent.log,
              response |-> answer.val]

\* process_homeworks(bot, current_timestamp, previous_message)
process_homeworks(api, tg, ts, previous) ==
    LET answer == get_api_answer(api, ts)
        checked == check_response(answer.val)
        homeworks == checked.val
        parsed == parse_status(homeworks.v[1])
        current_message == parsed.val
        parse_call == <<Call("parse_status", "process_homeworks", 0,
                             EmptyText,
                             IF parsed.exc = NoExc THEN "returned"
                             ELSE "raised")>>
        sent == send_message(tg, current_message)
    IN  IF answer.exc # NoExc
        THEN [exc |-> answer.exc, val |-> previous, log |-> answer.log,
              response |-> InvalidJson]
        ELSE IF checked.exc # NoExc
        THEN [exc |-> checked.exc, val |-> previous, log |-> answer.log,
              response |-> answer.val]
        ELSE IF Len(homeworks.v) = 0
        THEN [exc |-> NoExc, val |-> previous, log |-> answer.log,
              response |-> answer.val]
        ELSE IF parsed.exc # NoExc
        THEN [exc |-> parsed.exc, val |-> previous,
              log |-> answer.log \o parse_call, response |-> answer.val]
        ELSE IF current_message = previous
        THEN [exc |-> NoExc, val |-> previous,
              log |-> answer.log \o parse_call, response |-> answer.val]
        ELSE [exc |-> sent.exc,
              val |-> IF sent.val THEN current_message ELSE previous,
              log |-> answer.log \o parse_call \o sent.log,
              response |-> answer.val]

\* update_timestamp with response.get('current_date', 0): a response
\* without current_date resets the cursor
update_timestamp_default_zero(api, ts) ==
    LET answer == get_api_answer(api, ts)
    IN  IF answer.exc # NoExc
        THEN [exc |-> answer.exc, val |-> ts, date |-> JNull,
              log |-> answer.log]
        ELSE IF ~IsDict(answer.val)
        THEN [exc |-> Raise("AttributeError",
                            <<"object has no attribute 'get'">>),
              val |-> ts, date |-> JNull, log |-> answer.log]
        ELSE [exc |-> NoExc,
              val |-> IF HasKey(answer.val, "current_date")
                      THEN answer.val.v["current_date"].v
                      ELSE 0,
              date |-> IF HasKey(answer.val, "current_date")
                       THEN answer.val.v["current_date"]
                       ELSE JNull,
              log |-> answer.log]

\* update_timestamp(current_timestamp): a second request to the API; date
\* is the current_date its response carried (JNull when none was read)
update_timestamp(api, ts) ==
    LET answer == get_api_answer(api, ts)
    IN  IF answer.exc # NoExc
        THEN [exc |-> answer.exc, val |-> ts, date |-> JNull,
              log |-> answer.log]
        ELSE IF ~IsDict(answer.val)
        THEN [exc |-> Raise("AttributeError",
                            <<"object has no attribute 'get'">>),
              val |-> ts, date |-> JNull, log |-> answer.log]
        ELSE [exc |-> NoExc,
              val |-> IF HasKey(answer.val, "current_date")
                      THEN answer.val.v["current_date"].v
                      ELSE ts,
              date |-> IF HasKey(answer.val, "current_date")
                       THEN answer.val.v["current_date"]
                       ELSE JNull,
              log |-> answer.log]

\* handle_error that sends the error text a second time when the first
\* attempt was rejected
handle_error_retry(tg, error_message, previous) ==
    LET sent == send_message(tg, error_message)
    IN  IF error_message = previous
        THEN [exc |-> NoExc, val |-> previous, log |-> << >>]
        ELSE [exc |-> sent.exc,
              val |-> IF sent.val THEN error_message ELSE previous,
              log |-> IF sent.exc = NoExc /\ ~sent.val
                      THEN sent.log \o sent.log ELSE sent.log]

\* handle_error(bot, error_message, previous_message)
handle_error(tg, error_message, previous) ==
    LET sent == send_message(tg, error_message)
    IN  IF error_message = previous
        THEN [exc |-> NoExc, val |-> previous, log |-> << >>]
        ELSE [exc |-> sent.exc,
              val |-> IF sent.val THEN error_message ELSE previous,
              log |-> sent.log]

\* The text main() builds in the except clause that matches the error
ErrorMessage(error) ==
    IF error.type = "InvalidResponseCode"
    THEN <<"API error: ">> \o StrOfError(error)
    ELSE IF error.type = "ConnectionError"
    THEN <<"Connection failure: ">> \o StrOfError(error)
    ELSE <<"Program failure: ">> \o StrOfError(error)

\* ------------------------------------------------------------------ main
TokenNames == {"PRACTICUM_TOKEN", "TELEGRAM_TOKEN", "TELEGRAM_CHAT_ID"}

NoPass ==
    [delivered |-> << >>, failed |-> FALSE, cursor |-> 0, reported |-> JNull]

\* What the next pass remembers of a pass: the texts bot.send_message
\* accepted in it, whether an except clause ran, the cursor it began with
\* and the current_date update_timestamp read
Summary(calls, error, cursor, date) ==
    [delivered |-> SelectSeq(calls, LAMBDA c : c.op = "bot.send_message"
                                               /\ c.res = "True"),
     failed |-> error # NoExc,
     cursor |-> cursor,
     reported |-> date]

\* main() running: no function is called on its own
NoArg == [f |-> "main", x |-> JNull]
NoResult == [exc |-> NoExc, val |-> JNull, log |-> << >>]

Init ==
    /\ env \in [TokenNames -> EnvValues]
    /\ pc = "start"
    /\ current_timestamp = 0
    /\ previous_message = EmptyText
    /\ pending = NoExc
    /\ response = InvalidJson
    /\ returned = EmptyText
    /\ reported = JNull
    /\ log = << >>
    /\ cycle = 0
    /\ sleeps = 0
    /\ caught = NoExc
    /\ failed_at = "none"
    /\ cursor0 = 0
    /\ message0 = EmptyText
    /\ prev = NoPass
    /\ arg = NoArg
    /\ result = NoResult

\* What `process_homeworks(bot, current_timestamp, previous_message)` as a
\* statement of main leaves in main's previous_message: the call's value is
\* not assigned
AfterProcess(previous, value) == previous

\* main assigning what handle_error returns to previous_message
AfterHandlerAssigned(previous, value) == value

\* What the handle_error(...) statements of main leave in previous_message:
\* the call's value is not assigned
AfterHandler(previous, value) == previous

\* main(), lines 169-172
Start ==
    /\ pc = "start"
    /\ LET r == check_tokens(env)
       IN  IF r.exc # NoExc
           THEN /\ pc' = "exited"
                /\ pending' = r.exc
                /\ UNCHANGED current_timestamp
           ELSE /\ pc' = "while"
                /\ pending' = NoExc
                /\ \E now \in Dates : current_timestamp' = now
    /\ previous_message' = EmptyText
    /\ UNCHANGED <<arg, result, env, response, returned, reported, log, cycle, sleeps,
                   caught, failed_at, cursor0, message0, prev>>

\* lines 174-175: `while True` is entered again; the pass that begins
\* keeps of the one before it only what main's variables and prev hold
Loop ==
    /\ pc = "while"
    /\ cycle < MaxCycles
    /\ pc' = "try"
    /\ cycle' = cycle + 1
    /\ prev' = IF cycle = 0 THEN NoPass
             ELSE Summary(log, caught, cursor0, reported)
    /\ log' = << >>
    /\ response' = InvalidJson
    /\ returned' = EmptyText
    /\ reported' = JNull
    /\ caught' = NoExc
    /\ failed_at' = "none"
    /\ cursor0' = current_timestamp
    /\ message0' = previous_message
    /\ UNCHANGED <<arg, result, env, current_timestamp, previous_message, pending, sleeps>>

\* line 176
ProcessHomeworks ==
    /\ pc = "try"
    /\ \E api \in ApiOutcomes, tg \in BotOutcomes :
         LET r == process_homeworks(api, tg, current_timestamp,
                                    previous_message)
         IN  /\ log' = By(r.log, "process_homeworks")
             /\ response' = r.response
             /\ pending' = r.exc
             /\ returned' = r.val
             /\ previous_message' = AfterProcess(previous_message, r.val)
             /\ pc' = IF r.exc = NoExc THEN "update" ELSE "except"
             /\ failed_at' = IF r.exc = NoExc THEN "none"
                             ELSE "process_homeworks"
    /\ UNCHANGED <<arg, result, env, current_timestamp, reported, cycle, sleeps, caught,
                   cursor0, message0, prev>>

\* line 177
UpdateTimestamp ==
    /\ pc = "update"
    /\ \E api \in ApiOutcomes :
         LET r == update_timestamp(api, current_timestamp)
         IN  /\ log' = log \o By(r.log, "update_timestamp")
             /\ pending' = r.exc
             /\ current_timestamp' = r.val
             /\ reported' = r.date
             /\ pc' = IF r.exc = NoExc THEN "finally" ELSE "except"
             /\ failed_at' = IF r.exc = NoExc THEN "none"
                             ELSE "update_timestamp"
    /\ UNCHANGED <<arg, result, env, previous_message, response, returned, cycle, sleeps,
                   caught, cursor0, message0, prev>>

\* lines 178-187: the except clause that matches the pending exception
HandleError ==
    /\ pc = "except"
    /\ \E tg \in BotOutcomes :
         LET r == handle_error(tg, ErrorMessage(pending), previous_message)
         IN  /\ log' = log \o By(r.log, "handle_error")
             /\ pending' = r.exc
             /\ previous_message' = AfterHandler(previous_message, r.val)
    /\ caught' = pending
    /\ pc' = "finally"
    /\ UNCHANGED <<arg, result, env, current_timestamp, response, returned, reported,
                   cycle, sleeps, failed_at, cursor0, message0, prev>>

\* the sleep placed after the try statement instead of in its finally
\* clause: an exception raised by the handler skips it
SleepAfterTry ==
    /\ pc = "finally"
    /\ log' = IF pending = NoExc
              THEN Append(log, Call("time.sleep", "main", RETRY_PERIOD,
                                    EmptyText, "returned"))
              ELSE log
    /\ sleeps' = IF pending = NoExc THEN sleeps + 1 ELSE sleeps
    /\ pc' = IF pending = NoExc THEN "while" ELSE "exited"
    /\ UNCHANGED <<arg, result, env, current_timestamp, previous_message, pending,
                   response, returned, reported, cycle, caught, failed_at,
                   cursor0, message0, prev>>

\* lines 188-189: the finally clause, then the next pass or the exception
\* the handler raised leaves main
Sleep ==
    /\ pc = "finally"
    /\ log' = Append(log, Call("time.sleep", "main", RETRY_PERIOD,
                               EmptyText, "returned"))
    /\ sleeps' = sleeps + 1
    /\ pc' = IF pending = NoExc THEN "while" ELSE "exited"
    /\ UNCHANGED <<arg, result, env, current_timestamp, previous_message, pending,
                   response, returned, reported, cycle, caught, failed_at,
                   cursor0, message0, prev>>

Next ==
    Start \/ Loop \/ ProcessHomeworks \/ UpdateTimestamp \/ HandleError \/ Sleep

Spec == Init /\ [][Next]_vars

\* ------------------------------------------------- functions on their own
\* Decoded JSON values given to check_response: values that are not
\* objects, objects without homeworks, objects whose homeworks is not a
\* list, and objects whose homeworks is a list (of anything)
CheckInputs ==
    (Bodies \ {InvalidJson})
    \cup {JNull, JInt(0), JStr("homeworks"), JList(<<JStr("homeworks")>>)}
    \cup {JDict([k \in {"homeworks"} |-> x]) :
             x \in {JNull, JInt(1), JStr("hw1"), JDict(<< >>),
                    JList(<<JInt(1), JNull>>),
                    JList(<<JList(<< >>), Record("hw1", "approved")>>)}}
    \cup {JDict([k \in {"homework", "current_date"} |-> JList(<< >>)]),
          JDict(<< >>)}

\* Homework records given to parse_status: every subset of the keys
\* homework_name, status and id, with names and statuses in and out of the
\* lexicon
ParseNames == {"hw1", "hw2"}
ParseStatuses == {"approved", "reviewing", "rejected", "unknown_status", ""}
ParseKeys == {"homework_name", "status", "id"}

ParseInputs ==
    {JDict([k \in keys |->
              IF k = "homework_name" THEN JStr(n)
              ELSE IF k = "status" THEN JStr(st)
              ELSE JInt(1)]) :
       keys \in SUBSET ParseKeys, n \in ParseNames, st \in ParseStatuses}

\* What requests.get is made to do for get_api_answer: the outcomes of the
\* loop, and replies with other status codes
ApiInputs ==
    ApiOutcomes
    \cup {HttpReply(204, "No Content", InvalidJson),
          HttpReply(201, "Created", WithoutDate(JList(<< >>))),
          HttpReply(404, "Not Found", JDict(<< >>)),
          HttpReply(500, "Internal Server Error", InvalidJson)}

\* a function of homework.py is called on its own with one argument
CallInit ==
    /\ env = [k \in TokenNames |-> [none |-> FALSE, s |-> "value"]]
    /\ pc = "call"
    /\ current_timestamp = 0
    /\ previous_message = EmptyText
    /\ pending = NoExc
    /\ response = InvalidJson
    /\ returned = EmptyText
    /\ reported = JNull
    /\ log = << >>
    /\ cycle = 0
    /\ sleeps = 0
    /\ caught = NoExc
    /\ failed_at = "none"
    /\ cursor0 = 0
    /\ message0 = EmptyText
    /\ prev = NoPass
    /\ result = NoResult
    /\ arg \in {[f |-> "check_response", x |-> v] : v \in CheckInputs}
              \cup {[f |-> "parse_status", x |-> v] : v \in ParseInputs}
              \cup {[f |-> "get_api_answer", x |-> [api |-> a, ts |-> t]] :
                      a \in ApiInputs, t \in Dates}

Frame ==
    UNCHANGED <<env, current_timestamp, previous_message, pending, response,
                returned, reported, log, cycle, sleeps, caught, failed_at,
                cursor0, message0, prev, arg>>

CallCheckResponse ==
    /\ pc = "call"
    /\ arg.f = "check_response"
    /\ LET r == check_response(arg.x)
       IN  result' = [exc |-> r.exc, val |-> r.val, log |-> << >>]
    /\ pc' = "return"
    /\ Frame

CallParseStatus ==
    /\ pc = "call"
    /\ arg.f = "parse_status"
    /\ LET r == parse_status(arg.x)
       IN  result' = [exc |-> r.exc, val |-> r.val, log |-> << >>]
    /\ pc' = "return"
    /\ Frame

CallGetApiAnswer ==
    /\ pc = "call"
    /\ arg.f = "get_api_answer"
    /\ result' = get_api_answer(arg.x.api, arg.x.ts)
    /\ pc' = "return"
    /\ Frame

CallNext == CallCheckResponse \/ CallParseStatus \/ CallGetApiAnswer

CallSpec == CallInit /\ [][CallNext]_vars

\* ------------------------------------------------------------ vocabulary
\* the calls of the current pass to op
CallsTo(op) == SelectSeq(log, LAMBDA c : c.op = op)

\* the bot.send_message calls of the current pass made inside `by`
SendsBy(by) ==
    SelectSeq(log, LAMBDA c : c.op = "bot.send_message" /\ c.by = by)

Range(q) == {q[i] : i \in 1 .. Len(q)}

\* a pass of the loop is over: it slept, and main is back at `while` or gone
PassOver == cycle >= 1 /\ pc \in {"while", "exited"}

\* the pass ran no except clause
PassClean == caught = NoExc /\ pending = NoExc

\* process_homeworks' request of this pass was answered with a JSON body
Fetched == response.t # "invalid"

\* the body has a homeworks list, and the list is empty
EmptyHomeworks(body) ==
    /\ IsDict(body)
    /\ HasKey(body, "homeworks")
    /\ IsList(body.v["homeworks"])
    /\ Len(body.v["homeworks"].v) = 0

\* ---------------------------------------------------------------- claims

\* C1: two consecutive passes that both complete without error, the first
\* having delivered status text t (send_message returned True): the second
\* makes no bot.send_message call with text t.
C1_DedupAcrossCycles ==
    (PassOver /\ cycle >= 2 /\ PassClean /\ ~prev.failed) =>
        \A d \in Range(prev.delivered) :
            d.by = "process_homeworks" =>
                \A c \in Range(CallsTo("bot.send_message")) : c.text # d.text

\* C2: once the loop is entered, nothing that fails inside a pass leaves the
\* loop: main never exits after its first pass began.
C2_LoopNeverExits == cycle >= 1 => pc # "exited"

\* C3: send_message never raises: every bot.send_message call ends, for the
\* caller of send_message, in the boolean True or False.
C3_SendMessageNeverRaises ==
    \A c \in Range(CallsTo("bot.send_message")) : c.res \in {"True", "False"}

\* C4: after a pass in which send_message returned True for a status text,
\* main's previous_message is that text; after one in which it returned
\* False, previous_message is what it was when the pass began.
C4_LastNotificationTracksDelivery ==
    (PassOver /\ PassClean) =>
        \A c \in Range(SendsBy("process_homeworks")) :
            /\ c.res = "True" => previous_message = c.text
            /\ c.res = "False" => previous_message = message0

\* C5: after a pass that processed a fetched response without error, the
\* cursor is the current_date of that response, or the cursor the pass
\* began with when the response carries none.
C5_CursorFromProcessedResponse ==
    (PassOver /\ PassClean /\ Fetched) =>
        current_timestamp =
            IF IsDict(response) /\ HasKey(response, "current_date")
            THEN response.v["current_date"].v
            ELSE cursor0

\* the exception of this pass, while its except clause runs and after
Failure == IF pc = "except" THEN pending ELSE caught

\* process_homeworks raised while fetching, validating or formatting (and
\* not in send_message)
EarlyFailure ==
    /\ failed_at = "process_homeworks"
    /\ Failure.type \in {"ConnectionError", "InvalidResponseCode",
                         "JSONDecodeError", "TypeError", "KeyError",
                         "ValueError"}

\* C6 as stated: a pass whose fetching, validation or formatting fails makes
\* no bot.send_message call at all.
C6_NoSendOnFailure ==
    EarlyFailure => CallsTo("bot.send_message") = << >>

\* C6 amended: a pass in which process_homeworks fails while fetching,
\* validating or formatting makes no send_message call with a status text
\* and no second request; its only bot.send_message call is the one
\* handle_error makes with the error text, and the pass ends with the sleep
\* and the cursor it began with.
C6_FailureSendsOnlyErrorText ==
    EarlyFailure =>
        /\ SendsBy("process_homeworks") = << >>
        /\ Len(CallsTo("requests.get")) = 1
        /\ Len(CallsTo("bot.send_message")) <= 1
        /\ \A c \in Range(CallsTo("bot.send_message")) :
               c.by = "handle_error" /\ c.text = ErrorMessage(Failure)
        /\ pc # "except" => Len(CallsTo("bot.send_message")) = 1
        /\ PassOver => /\ log[Len(log)].op = "time.sleep"
                       /\ current_timestamp = cursor0

C6_Witness ==
    /\ PassOver
    /\ failed_at = "process_homeworks"
    /\ caught.type = "ValueError"
    /\ Len(SendsBy("handle_error")) = 1
    /\ SendsBy("handle_error")[1].res = "False"

\* C7: a pass whose fetch fails (the request raises, or the status is not
\* 200) leaves the cursor and previous_message as they were when it began.
C7_FetchFailureFrame ==
    caught.type \in {"ConnectionError", "InvalidResponseCode"} =>
        /\ current_timestamp = cursor0
        /\ previous_message = message0

C7_Witness ==
    /\ PassOver
    /\ caught.type = "InvalidResponseCode"
    /\ failed_at = "process_homeworks"
    /\ Len(SendsBy("handle_error")) = 1
    /\ SendsBy("handle_error")[1].res = "True"

\* C8: every pass ends with exactly one time.sleep(RETRY_PERIOD), after all
\* its requests and notifications and before any call of the next pass, on
\* every path, the one where the handler raises included.
C8_OnePausePerPass ==
    /\ sleeps = IF pc \in {"start", "while", "exited"} THEN cycle
                ELSE cycle - 1
    /\ pc \in {"try", "update", "except", "finally"} =>
           CallsTo("time.sleep") = << >>
    /\ PassOver =>
           /\ Len(CallsTo("time.sleep")) = 1
           /\ log[Len(log)].op = "time.sleep"
           /\ log[Len(log)].n = RETRY_PERIOD

C8_Witness ==
    /\ pc = "exited"
    /\ cycle >= 1
    /\ pending.type = "RequestException"
    /\ log[Len(log)].op = "time.sleep"

\* C9: with a credential missing or empty check_tokens raises and main ends
\* before any pass, request, notification or sleep; with all three present
\* main enters the loop.
C9_TokensGateTheLoop ==
    pc # "start" =>
        IF MissingTokens(env) # {}
        THEN /\ pc = "exited"
             /\ pending.type = "Exception"
             /\ cycle = 0
             /\ sleeps = 0
             /\ log = << >>
        ELSE pc = "while" \/ cycle >= 1

C9_Witness ==
    /\ pc = "exited"
    /\ cycle = 0
    /\ MissingTokens(env) = {"TELEGRAM_CHAT_ID"}
    /\ ~env["TELEGRAM_CHAT_ID"].none

\* C10: a pass whose fetched response has an empty homeworks list makes no
\* parse_status call and no bot.send_message call.
C10_EmptyListQuiet ==
    (cycle >= 1 /\ EmptyHomeworks(response)) =>
        /\ CallsTo("parse_status") = << >>
        /\ CallsTo("bot.send_message") = << >>

\* the requests of the current pass made inside `by`
RequestsBy(by) ==
    SelectSeq(log, LAMBDA c : c.op = "requests.get" /\ c.by = by)

\* C11 as stated: the cursor a pass fetches with is never less than the
\* cursor the pass before it fetched with.
C11_CursorMonotonic ==
    cycle >= 2 =>
        \A c \in Range(RequestsBy("process_homeworks")) : c.n >= prev.cursor

\* C11 amended: the cursor a pass fetches with is the cursor of the pass
\* before, or the current_date update_timestamp read in that pass; so it is
\* less than the cursor before only when the server reported a current_date
\* less than the cursor it was asked with.
C11_CursorFollowsServer ==
    cycle >= 2 =>
        \A c \in Range(RequestsBy("process_homeworks")) :
            /\ c.n = cursor0
            /\ \/ (prev.reported = JNull /\ c.n = prev.cursor)
               \/ (prev.reported.t = "int" /\ c.n = prev.reported.v)
            /\ c.n < prev.cursor =>
                   prev.reported.t = "int" /\ prev.reported.v < prev.cursor

C11_Witness ==
    /\ cycle >= 2
    /\ Len(RequestsBy("process_homeworks")) = 1
    /\ RequestsBy("process_homeworks")[1].n < prev.cursor
    /\ prev.reported.t = "int"

\* C12: two consecutive passes fail with the same error text, and the first
\* delivered it (send_message returned True): handle_error makes no
\* bot.send_message call with that text in the second.
C12_ErrorDedupAcrossCycles ==
    cycle >= 2 =>
        \A d \in Range(prev.delivered) :
            d.by = "handle_error" =>
                \A c \in Range(SendsBy("handle_error")) : c.text # d.text

Returned(f) == pc = "return" /\ arg.f = f

\* C13: check_response raises when the value is not an object, when it is
\* an object without the key homeworks, and when the value under homeworks
\* is not a list; otherwise it returns the homeworks list unchanged, empty
\* or not, whatever its elements are.
C13_CheckResponse ==
    Returned("check_response") =>
        IF arg.x.t # "dict" THEN result.exc # NoExc
        ELSE IF "homeworks" \notin DOMAIN arg.x.v THEN result.exc # NoExc
        ELSE IF arg.x.v["homeworks"].t # "list" THEN result.exc # NoExc
        ELSE result.exc = NoExc /\ result.val = arg.x.v["homeworks"]

C13_Witness ==
    /\ Returned("check_response")
    /\ result.exc = NoExc
    /\ result.val = JList(<< >>)
    /\ "current_date" \in DOMAIN arg.x.v

\* C14: parse_status raises when homework_name or status is absent and when
\* status is not approved, reviewing or rejected; otherwise it returns the
\* template filled with homework_name and the verdict of status, whatever
\* else the record holds.
C14_ParseStatus ==
    Returned("parse_status") =>
        IF {"homework_name", "status"} \ DOMAIN arg.x.v # {}
        THEN result.exc # NoExc
        ELSE IF arg.x.v["status"].v \notin {"approved", "reviewing",
                                             "rejected"}
        THEN result.exc # NoExc
        ELSE /\ result.exc = NoExc
             /\ result.val = <<"Changed review status for \"",
                               arg.x.v["homework_name"].v, "\". ",
                               HOMEWORK_VERDICTS[arg.x.v["status"].v]>>

C14_Witness ==
    /\ Returned("parse_status")
    /\ DOMAIN arg.x.v = ParseKeys
    /\ arg.x.v["status"].v = "reviewing"
    /\ result.val = <<"Changed review status for \"", "hw2", "\". ",
                      "Work taken for review by the reviewer.">>

\* C15: get_api_answer makes exactly one request per call; when the request
\* raises it raises ConnectionError, on a status other than 200 it raises
\* InvalidResponseCode with the code, reason and body, and on 200 it
\* returns the decoded body (or raises when the body is not JSON).
C15_GetApiAnswer ==
    Returned("get_api_answer") =>
        /\ Len(result.log) = 1
        /\ result.log[1].op = "requests.get"
        /\ result.log[1].n = arg.x.ts
        /\ IF arg.x.api.raises
           THEN result.exc.type = "ConnectionError"
           ELSE IF arg.x.api.status_code # 200
           THEN /\ result.exc.type = "InvalidResponseCode"
                /\ result.exc.msg =
                       <<"Wrong API response code: ">>
                       \o IntToStr(arg.x.api.status_code)
                       \o <<", reason: ", arg.x.api.reason,
                            ", text: ", arg.x.api.text>>
           ELSE IF arg.x.api.json.t = "invalid"
           THEN result.exc.type = "JSONDecodeError"
           ELSE result.exc = NoExc /\ result.val = arg.x.api.json

C15_Witness ==
    /\ Returned("get_api_answer")
    /\ arg.x.api.status_code = 204
    /\ result.exc.type = "InvalidResponseCode"
    /\ Len(result.log) = 1

\* the body with its homeworks list cut down to element 0
FirstOnly(body) ==
    JDict([k \in DOMAIN body.v |->
             IF k = "homeworks"
             THEN JList(<<body.v["homeworks"].v[1]>>)
             ELSE body.v[k]])

\* the fetched body has a homeworks list with elements after element 0
HasLaterElements(body) ==
    /\ IsDict(body)
    /\ HasKey(body, "homeworks")
    /\ IsList(body.v["homeworks"])
    /\ Len(body.v["homeworks"].v) >= 2

\* C16: a response with elements after homeworks[0] leads to the calls, the
\* outcome and the loop state that the response cut down to homeworks[0]
\* leads to: what process_homeworks did is what it does on the first
\* element alone.
C16_FirstElementDecides ==
    (pc \in {"update", "except"} /\ failed_at # "update_timestamp"
     /\ HasLaterElements(response)) =>
        \E tg \in BotOutcomes :
            LET r == process_homeworks(HttpReply(HTTP_OK, "OK",
                                                 FirstOnly(response)),
                                       tg, cursor0, message0)
            IN  /\ By(r.log, "process_homeworks") = log
                /\ r.exc = pending
                /\ r.val = returned
                /\ previous_message = AfterProcess(message0, r.val)
                /\ current_timestamp = cursor0

C16_Witness ==
    /\ pc = "update"
    /\ HasLaterElements(response)
    /\ response.v["homeworks"].v[1] # response.v["homeworks"].v[2]
    /\ Len(SendsBy("process_homeworks")) = 1
    /\ SendsBy("process_homeworks")[1].res = "True"

\* C17: the cursor only ever moves to the current_date of the response
\* that process_homeworks fetched, validated and processed in the same pass.
C17_CursorOnlyFromProcessedResponse ==
    (cycle >= 1 /\ current_timestamp # cursor0) =>
        /\ IsDict(response)
        /\ HasKey(response, "current_date")
        /\ response.v["current_date"].v = current_timestamp

\* C18: a pass makes at most one bot.send_message call, status and error
\* notifications counted together; a pass that delivered a status text
\* sends no error text.
C18_AtMostOneSendPerPass ==
    /\ Len(CallsTo("bot.send_message")) <= 1
    /\ (\E c \in Range(SendsBy("process_homeworks")) : c.res = "True") =>
           SendsBy("handle_error") = << >>

\* send_message returned False for a status text in this pass
StatusRejected ==
    \E c \in Range(SendsBy("process_homeworks")) : c.res = "False"

\* C19: when send_message returns False for a status text the pass goes
\* on: process_homeworks returns, no except clause runs because of it,
\* update_timestamp makes its request, and the cursor becomes the
\* current_date that request reports.
C19_RejectedSendDoesNotAbandon ==
    StatusRejected =>
        /\ failed_at # "process_homeworks"
        /\ pc \in {"update", "except", "finally", "while", "exited"}
        /\ pc # "update" => Len(RequestsBy("update_timestamp")) = 1
        /\ caught # NoExc => failed_at = "update_timestamp"
        /\ (pc \in {"finally", "while"} /\ PassClean) =>
               current_timestamp =
                   IF reported.t = "int" THEN reported.v ELSE cursor0
        /\ previous_message = message0

C19_Witness ==
    /\ StatusRejected
    /\ PassOver
    /\ PassClean
    /\ current_timestamp > cursor0

====
